---- MODULE Spec2Model ----
(***************************************************************************)
(* A model of ventricle.py: the per-case pipeline of class Ventricle       *)
(* (key frames, apex, biomarkers) and the table cache of class Cohort,     *)
(* and of class PlottingCurvature of plotting.py as far as it reads and    *)
(* writes the arrays of a Ventricle.                                       *)
(*                                                                         *)
(* Numbers.  Contour coordinates and curvature values are integers here.   *)
(* Two quantities of the code are halves of integers and are kept as their *)
(* numerators over 2: the area of _plane_area (0.5 * |...|) and the        *)
(* entries of vc_normalized ((c + 0.125) * 4 = (8c + 1) / 2).              *)
(* Indices (frames, points, columns) are 0-based as in the code.           *)
(***************************************************************************)
EXTENDS Integers, Sequences, FiniteSets, TLC

VARIABLES
    case_file,  \* the case file a Ventricle is built from: view, data, engine output
    ven,        \* the Ventricle object (NoVentricle before construction)
    ret,        \* how the last call ended
    source,     \* source_path: per view, the case identifiers of the sorted *.CSV listing
    fs,         \* output_path: the persisted per-view tables and the master table
    cohort,     \* the Cohort object
    hist,       \* history: completed builds, and the first master table of the Cohort
    plot_tool   \* the PlottingCurvature object built from the Ventricle

vars == <<case_file, ven, ret, source, fs, cohort, hist, plot_tool>>

Views == {"4C", "3C", "2C"}

(***************************************************************************)
(* Bounds of the inputs.                                                   *)
(***************************************************************************)
MaxFrames == 3
MaxRows == 2
MaxCols == 5
MaxSpikes == 2
MaxFiles == 4
MaxCount == 2
MaxCases == 2
MaxPoints == 30

Scales == {1, 2, 3}

SpikeValues == {-1, 1}

(***************************************************************************)
(* numpy / pandas primitives, computed the way the library computes them.  *)
(***************************************************************************)
Abs(n) == IF n < 0 THEN -n ELSE n

\* np.dot of two vectors of length n (0-based functions).
RECURSIVE DotFrom(_, _, _, _)
DotFrom(x, y, n, i) == IF i >= n THEN 0 ELSE x[i] * y[i] + DotFrom(x, y, n, i + 1)

Dot(x, y, n) == DotFrom(x, y, n, 0)

\* np.roll(y, 1): element i of the result is element i-1 of y, cyclically.
Roll(y, n) == [i \in 0 .. n - 1 |-> y[(i + n - 1) % n]]

\* np.argmin / idxmin: a left-to-right scan that replaces the best index
\* only on a strictly smaller value.
RECURSIVE ArgMinFrom(_, _, _, _)
ArgMinFrom(f, n, i, best) ==
    IF i >= n THEN best
    ELSE ArgMinFrom(f, n, i + 1, IF f[i] < f[best] THEN i ELSE best)

ArgMinLast(f, n) ==
    LET RECURSIVE Scan(_, _)
        Scan(i, best) ==
            IF i >= n THEN best
            ELSE Scan(i + 1, IF f[i] <= f[best] THEN i ELSE best)
    IN Scan(1, 0)

ArgMin(f, n) == ArgMinFrom(f, n, 1, 0)

\* np.argmax / idxmax: the same scan for the largest value.
RECURSIVE ArgMaxFrom(_, _, _, _)
ArgMaxFrom(f, n, i, best) ==
    IF i >= n THEN best
    ELSE ArgMaxFrom(f, n, i + 1, IF f[i] > f[best] THEN i ELSE best)

ArgMax(f, n) == ArgMaxFrom(f, n, 1, 0)

\* min() / max() of a non-empty vector of length n.
VecMin(f, n) == f[ArgMin(f, n)]

VecMax(f, n) == f[ArgMax(f, n)]

\* np.unique(a, return_counts=True): the distinct values in ascending
\* order (0-based) and how often each occurs in the vector a of length n.
RECURSIVE SortedFrom(_)
SortedFrom(S) ==
    IF S = {} THEN <<>>
    ELSE LET m == CHOOSE v \in S : \A w \in S : v <= w
         IN <<m>> \o SortedFrom(S \ {m})

Unique(a, n) ==
    LET s == SortedFrom({a[i] : i \in 0 .. n - 1})
        k == Len(s)
    IN [values |-> [j \in 0 .. k - 1 |-> s[j + 1]],
        counts |-> [j \in 0 .. k - 1 |->
                        Cardinality({i \in 0 .. n - 1 : a[i] = s[j + 1]})],
        len |-> k]

\* np.round(num * P / den) for num/den >= 0: to nearest, halves to even.
Round(num, den) ==
    LET q == num \div den
        r == num % den
    IN IF 2 * r < den THEN q
       ELSE IF 2 * r > den THEN q + 1
       ELSE IF q % 2 = 0 THEN q ELSE q + 1

(***************************************************************************)
(* class Ventricle                                                         *)
(***************************************************************************)
NoVentricle == [constructed |-> FALSE]

NoBiomarkers == [c \in {} |-> 0]

\* data[frame, ::2] and data[frame, 1::2]: the x and the y coordinates.
XOf(data, frame, P) == [i \in 0 .. P - 1 |-> data[frame][2 * i]]

YOf(data, frame, P) == [i \in 0 .. P - 1 |-> data[frame][2 * i + 1]]

\* Ventricle.__init__, the field defaults, and _read_echopac_output.
_read_echopac_output(file) ==
    [constructed |-> TRUE,
     view |-> file.view,
     number_of_frames |-> file.frames,
     number_of_points |-> file.columns \div 2,
     es_frame |-> 0,
     ed_frame |-> 0,
     apex |-> 0,
     ventricle_curvature |-> <<>>,
     vc_normalized |-> <<>>,
     apices |-> <<>>,
     data |-> file.data,
     biomarkers |-> NoBiomarkers]

_plane_area_signed(x, y, n) == Dot(x, Roll(y, n), n) - Dot(y, Roll(x, n), n)

\* Twice the shoelace area (the code multiplies by 0.5).
_plane_area(x, y, n) == Abs(Dot(x, Roll(y, n), n) - Dot(y, Roll(x, n), n))

Areas(v) ==
    [frame \in 0 .. v.number_of_frames - 1 |->
        _plane_area(XOf(v.data, frame, v.number_of_points),
                    YOf(v.data, frame, v.number_of_points),
                    v.number_of_points)]

find_ed_and_es_frame_swapped(v) ==
    [v EXCEPT !.es_frame = ArgMax(Areas(v), v.number_of_frames),
              !.ed_frame = ArgMin(Areas(v), v.number_of_frames)]

find_ed_and_es_frame_both_min(v) ==
    [v EXCEPT !.es_frame = ArgMin(Areas(v), v.number_of_frames),
              !.ed_frame = ArgMin(Areas(v), v.number_of_frames)]

find_ed_and_es_frame(v) ==
    [v EXCEPT !.es_frame = ArgMin(Areas(v), v.number_of_frames),
              !.ed_frame = ArgMax(Areas(v), v.number_of_frames)]

\* The Curvature engine (module curvature, gap = 0) is not part of the
\* sources: its result for a frame is an input of the model.
calculate_curvature(file, frame) == file.curv[frame]

get_curvature_per_frame_reversed(v, file) ==
    [v EXCEPT !.ventricle_curvature =
        [frame \in 0 .. v.number_of_frames - 1 |->
            calculate_curvature(file, v.number_of_frames - 1 - frame)]]

get_curvature_per_frame(v, file) ==
    [v EXCEPT !.ventricle_curvature =
        [frame \in 0 .. v.number_of_frames - 1 |-> calculate_curvature(file, frame)]]

\* c + 0.125 * 4, as the numerator over 2.
get_normalized_curvature_unscaled(v) ==
    [v EXCEPT !.vc_normalized =
        [frame \in DOMAIN v.ventricle_curvature |->
            [p \in DOMAIN v.ventricle_curvature[frame] |->
                2 * v.ventricle_curvature[frame][p] + 1]]]

\* (c + 0.125) * 4, kept as the numerator over 2.
get_normalized_curvature(v) ==
    [v EXCEPT !.vc_normalized =
        [frame \in DOMAIN v.ventricle_curvature |->
            [p \in DOMAIN v.ventricle_curvature[frame] |->
                8 * v.ventricle_curvature[frame][p] + 1]]]

\* The per-frame index of the lowest point, then the mode over the frames.
FrameApex(v, frame) ==
    ArgMin(YOf(v.data, frame, v.number_of_points), v.number_of_points)

find_apices_first_frame(v) ==
    LET apices == [frame \in 0 .. v.number_of_frames - 1 |-> FrameApex(v, frame)]
    IN [v EXCEPT !.apices = apices, !.apex = apices[0]]

find_apices_first_seen(v) ==
    LET apices == [frame \in 0 .. v.number_of_frames - 1 |-> FrameApex(v, frame)]
        count(k) == Cardinality({f \in 0 .. v.number_of_frames - 1 : apices[f] = k})
        counts == [f \in 0 .. v.number_of_frames - 1 |-> count(apices[f])]
    IN [v EXCEPT !.apices = apices,
                 !.apex = apices[ArgMax(counts, v.number_of_frames)]]

find_apices_flat_index(v) ==
    LET apices == [frame \in 0 .. v.number_of_frames - 1 |-> FrameApex(v, frame)]
        u == Unique(apices, v.number_of_frames)
    IN [v EXCEPT !.apices = apices,
                 !.apex = 2 * u.values[ArgMax(u.counts, u.len)] + 1]

find_apices(v) ==
    LET apices == [frame \in 0 .. v.number_of_frames - 1 |-> FrameApex(v, frame)]
        u == Unique(apices, v.number_of_frames)
    IN [v EXCEPT !.apices = apices,
                 !.apex = u.values[ArgMax(u.counts, u.len)]]

\* pd.read_csv (line 40) raises EmptyDataError on a case file without a
\* data row below the ten skipped lines: no Ventricle comes to exist.
ConstructionError(file) == IF file.frames = 0 THEN "EmptyDataError" ELSE "none"

\* The constructor, in the order of its calls.
NewVentricle(file) ==
    find_ed_and_es_frame(
        find_apices(
            get_normalized_curvature(
                get_curvature_per_frame(_read_echopac_output(file), file))))

(***************************************************************************)
(* Ventricle.get_biomarkers                                                *)
(***************************************************************************)
NumRows(curv) == Cardinality(DOMAIN curv)

NumCols(curv) == Cardinality(DOMAIN curv[0])

Column(curv, c) == [r \in 0 .. NumRows(curv) - 1 |-> curv[r][c]]

\* curv.max(axis=0), curv.min(axis=0): one value per column.
ColMax(curv) == [c \in 0 .. NumCols(curv) - 1 |-> VecMax(Column(curv, c), NumRows(curv))]

ColMin(curv) == [c \in 0 .. NumCols(curv) - 1 |-> VecMin(Column(curv, c), NumRows(curv))]

\* The bounds of the column window of a view other than '2C'.
lower_bound(view, P) == IF view = "4C" THEN Round(4 * P, 100) ELSE Round(60 * P, 100)

upper_bound_ceiling(view, P) ==
    IF view = "4C" THEN (40 * P + 99) \div 100 ELSE (96 * P + 99) \div 100

upper_bound(view, P) == IF view = "4C" THEN Round(40 * P, 100) ELSE Round(96 * P, 100)

\* curv.loc[:, lower_bound:upper_bound]: the columns whose label lies in
\* the closed interval, as a 0-based list of labels.
WindowLabels(view, P) ==
    LET lo == lower_bound(view, P)
        hi == IF upper_bound(view, P) > P - 1 THEN P - 1 ELSE upper_bound(view, P)
    IN [k \in 0 .. hi - lo |-> lo + k]

SearchLabelsAll(view, P) == [k \in 0 .. P - 1 |-> k]

\* The columns the minimum is searched in: all of them for '2C'.
SearchLabels(view, P) ==
    IF view = "2C" THEN [k \in 0 .. P - 1 |-> k] ELSE WindowLabels(view, P)

NumLabels(labels) == Cardinality(DOMAIN labels)

\* curv.max(axis=0).idxmax()
CurvMaxCol(curv) == ArgMax(ColMax(curv), NumCols(curv))

\* curv.loc[:, lb:ub].min(axis=0).idxmin(), or curv.min(axis=0).idxmin()
CurvMinCol(curv, view) ==
    LET labels == SearchLabels(view, NumCols(curv))
        W == NumLabels(labels)
    IN labels[ArgMin([k \in 0 .. W - 1 |-> ColMin(curv)[labels[k]]], W)]

\* curv.loc[:, lb:ub].min(axis=1).idxmin(), or curv.min(axis=1).idxmin()
CurvMinRow(curv, view) ==
    LET labels == SearchLabels(view, NumCols(curv))
        W == NumLabels(labels)
    IN ArgMin([r \in 0 .. NumRows(curv) - 1 |->
                  VecMin([k \in 0 .. W - 1 |-> curv[r][labels[k]]], W)],
              NumRows(curv))

\* curv.min().min() and curv.max().max()
GlobalMinFirstColumn(curv) == ColMin(curv)[0]

GlobalMin(curv) == VecMin(ColMin(curv), NumCols(curv))

GlobalMax(curv) == VecMax(ColMax(curv), NumCols(curv))

\* |curv[curv_min_col].max() - min|
MinDeltaOfRow(curv, col, min) == Abs(VecMax(curv[0], NumCols(curv)) - min)

MinDelta(curv, col, min) == Abs(VecMax(Column(curv, col), NumRows(curv)) - min)

\* |curv[curv_max_col].min() - max|
MaxDelta_signed(curv, col, max) == VecMin(Column(curv, col), NumRows(curv)) - max

MaxDelta(curv, col, max) == Abs(VecMin(Column(curv, col), NumRows(curv)) - max)

\* |curv.loc[curv_min_row].max() - min|
AmplitudeAtT(curv, row, min) == Abs(VecMax(curv[row], NumCols(curv)) - min)

\* The biomarker row, or the ValueError idxmin raises on an empty window
\* (line 91, before any assignment to self.biomarkers).
Biomarkers(curv, view) ==
    IF NumLabels(SearchLabels(view, NumCols(curv))) = 0 THEN [exc |-> "ValueError"]
    ELSE LET curv_max_col == CurvMaxCol(curv)
             curv_min_col == CurvMinCol(curv, view)
             curv_min_row == CurvMinRow(curv, view)
             min == GlobalMin(curv)
             max == GlobalMax(curv)
         IN [exc |-> "none",
             curv_max_col |-> curv_max_col,
             curv_min_col |-> curv_min_col,
             curv_min_row |-> curv_min_row,
             row |-> [min |-> min,
                      max |-> max,
                      min_delta |-> MinDelta(curv, curv_min_col, min),
                      max_delta |-> MaxDelta(curv, curv_max_col, max),
                      amplitude_at_t |-> AmplitudeAtT(curv, curv_min_row, min)]]

(***************************************************************************)
(* The case files of the input families.                                  *)
(***************************************************************************)
\* A 4-point rectangle of width 2s and height s, listed from corner r on.
BaseCorners == <<0, 0, 2, 0, 2, 1, 0, 1>>

RectFrame(s, r) ==
    [j \in 0 .. 7 |-> s * BaseCorners[((2 * r + j) % 8) + 1]]

RectFrames == {RectFrame(s, r) : s \in Scales, r \in 0 .. 3}

ZeroMatrix(F, P) == [f \in 0 .. F - 1 |-> [p \in 0 .. P - 1 |-> 0]]

ContourFile(F, d) ==
    [view |-> "2C", frames |-> F, columns |-> 8, data |-> d, curv |-> ZeroMatrix(F, 4)]

\* Contours of P points on a small grid, the first point at the origin, F
\* frames: <<P, F>>.
Coords == {0, 1}

Shapes == {<<3, 1>>, <<3, 2>>, <<4, 1>>}

PolygonFrames(P) == {d \in [0 .. 2 * P - 1 -> Coords] : d[0] = 0 /\ d[1] = 0}

PolygonFile(P, F, d) ==
    [view |-> "2C", frames |-> F, columns |-> 2 * P, data |-> d, curv |-> ZeroMatrix(F, P)]

\* The same cyclic point sequence started r points later, or the reversed
\* sequence started r points later.
ReorderFrame(d, P, r, reversed) ==
    [j \in 0 .. 2 * P - 1 |->
        LET i == j \div 2
            from == IF reversed THEN (P - 1 - i + r) % P ELSE (i + r) % P
        IN d[2 * from + (j % 2)]]

Reordered(file, r, reversed) ==
    [file EXCEPT !.data = [f \in 0 .. file.frames - 1 |->
                             ReorderFrame(file.data[f], file.columns \div 2, r, reversed)]]

\* A curvature matrix that is zero except for at most MaxSpikes cells.
Cells(F, P) == (0 .. F - 1) \X (0 .. P - 1)

SpikeSets(F, P) == {S \in SUBSET Cells(F, P) : Cardinality(S) <= MaxSpikes}

SpikeMatrix(F, P, S, val) ==
    [f \in 0 .. F - 1 |-> [p \in 0 .. P - 1 |->
        IF <<f, p>> \in S THEN val[<<f, p>>] ELSE 0]]

\* A straight line of P points, repeated in every frame.
LineData(F, P) == [f \in 0 .. F - 1 |-> [j \in 0 .. 2 * P - 1 |-> IF j % 2 = 0 THEN j \div 2 ELSE 0]]

CurvatureFile(w, F, P, m) ==
    [view |-> w, frames |-> F, columns |-> 2 * P, data |-> LineData(F, P), curv |-> m]

\* A case file with the ten header lines and no data row.
EmptyFile(w) == [view |-> w, frames |-> 0, columns |-> 0, data |-> <<>>, curv |-> <<>>]

(***************************************************************************)
(* Tables.  A case identifier is a string, kept as the sequence of its     *)
(* characters, each as its distance from '0' (so '9' is 9 and 'A' is 17)   *)
(* and compared as Python compares strings.  An index label is a string or,*)
(* after read_csv has inferred an integer column, an integer.  A cell is   *)
(* a float: an integer n (Num), a quotient that is not evaluated (Ratio),  *)
(* the logarithm of a positive integer (Log), or one of nan, inf, -inf; a  *)
(* finite float is taken to be read back from a CSV file as it was         *)
(* written.  A column name is the sequence of its '_'-joined parts.        *)
(***************************************************************************)
\* The identifiers of the case files: '09' and 'A'.
Ids == {<<0, 9>>, <<17>>}

None == [none |-> TRUE]

Features ==
    << <<"min">>, <<"max">>, <<"min_delta">>, <<"max_delta">>, <<"amplitude_at_t">>,
       <<"min_index2">>, <<"min_index">>, <<"log_min_index">>, <<"min_v_amp_index">>,
       <<"log_min_v_amp_index">>, <<"delta_ratio">> >>

Num(n) == [kind |-> "num", n |-> n]

NaN == [kind |-> "nan"]

Inf == [kind |-> "inf"]

NegInf == [kind |-> "-inf"]

\* a / b on floats: numpy gives nan for 0/0 and a signed infinity for x/0.
Div(a, b) ==
    IF b # 0 THEN [kind |-> "ratio", num |-> a, den |-> b]
    ELSE IF a = 0 THEN NaN
    ELSE IF a > 0 THEN Inf ELSE NegInf

\* np.abs of a float.
AbsVal(v) ==
    IF v.kind = "ratio" THEN [kind |-> "ratio", num |-> Abs(v.num), den |-> Abs(v.den)]
    ELSE IF v.kind = "-inf" THEN Inf
    ELSE v

\* np.log of an integer-valued float: -inf at 0, nan below, no exception.
LogOf(n) ==
    IF n > 0 THEN [kind |-> "log", of |-> n]
    ELSE IF n = 0 THEN NegInf
    ELSE NaN

IsDigits(cs) == Len(cs) > 0 /\ \A i \in 1 .. Len(cs) : cs[i] \in 0 .. 9

RECURSIVE IntOf(_)
IntOf(cs) == IF cs = <<>> THEN 0 ELSE 10 * IntOf(SubSeq(cs, 1, Len(cs) - 1)) + cs[Len(cs)]

RECURSIVE DigitsOf(_)
DigitsOf(n) == IF n < 10 THEN <<n>> ELSE DigitsOf(n \div 10) \o <<n % 10>>

StrLabel(cs) == [kind |-> "str", chars |-> cs]

IntLabel(n) == [kind |-> "int", n |-> n]

\* str(label), as to_csv writes it.
LabelText(l) == IF l.kind = "int" THEN DigitsOf(l.n) ELSE l.chars

\* Python's < on two strings.
RECURSIVE StrLess(_, _)
StrLess(a, b) ==
    IF b = <<>> THEN FALSE
    ELSE IF a = <<>> THEN TRUE
    ELSE IF a[1] # b[1] THEN a[1] < b[1]
    ELSE StrLess(Tail(a), Tail(b))

LabelLess(x, y) ==
    IF x.kind = "int" /\ y.kind = "int" THEN x.n < y.n
    ELSE StrLess(LabelText(x), LabelText(y))

RECURSIVE SortLabels(_)
SortLabels(S) ==
    IF S = {} THEN <<>>
    ELSE LET m == CHOOSE x \in S : \A y \in S : ~LabelLess(y, x)
         IN <<m>> \o SortLabels(S \ {m})

RECURSIVE Flatten(_)
Flatten(ss) == IF ss = <<>> THEN <<>> ELSE Head(ss) \o Flatten(Tail(ss))

Range(seq) == {seq[i] : i \in 1 .. Len(seq)}

Labels(df) == {df.index[i] : i \in 1 .. Len(df.index)}

\* DataFrame.to_csv: the header, and per row the label as text and the cells.
to_csv(df) ==
    [header |-> df.columns,
     lines |-> [i \in 1 .. Len(df.index) |->
                   [id |-> LabelText(df.index[i]), cells |-> df.data[i]]]]

\* pd.read_csv(header=0, index_col=0): an index column whose every entry is
\* an integer literal becomes an integer index, any other stays text.
read_csv(file) ==
    LET numeric == \A i \in 1 .. Len(file.lines) : IsDigits(file.lines[i].id)
    IN [columns |-> file.header,
        index |-> [i \in 1 .. Len(file.lines) |->
                      IF numeric THEN IntLabel(IntOf(file.lines[i].id))
                      ELSE StrLabel(file.lines[i].id)],
        data |-> [i \in 1 .. Len(file.lines) |-> file.lines[i].cells]]

\* The rows of left x right that carry the label, left-major.
RowsFor(left, right, label) ==
    LET li == SelectSeq([i \in 1 .. Len(left.index) |-> i], LAMBDA i : left.index[i] = label)
        ri == SelectSeq([i \in 1 .. Len(right.index) |-> i], LAMBDA i : right.index[i] = label)
    IN Flatten([a \in 1 .. Len(li) |->
                   [b \in 1 .. Len(ri) |-> left.data[li[a]] \o right.data[ri[b]]]])

\* The labels of both tables, in ascending order.
MergeKeys(left, right) == SortLabels(Labels(left) \cap Labels(right))

\* left.merge(right, left_index=True, right_index=True, sort=True): the
\* inner join on the index labels, sorted by label; a label that occurs
\* several times gives every combination of its rows.
Joined(left, right, keys) ==
    [columns |-> left.columns \o right.columns,
     index |-> Flatten([k \in 1 .. Len(keys) |->
                  [j \in 1 .. Len(RowsFor(left, right, keys[k])) |-> keys[k]]]),
     data |-> Flatten([k \in 1 .. Len(keys) |-> RowsFor(left, right, keys[k])])]

merge(left, right) == Joined(left, right, MergeKeys(left, right))

\* The curvature (2 frames, 2 points) of a case whose biomarkers and derived
\* columns are all finite and not zero in every view, and of a case without
\* curvature.
SoundMatrix == (0 :> (0 :> -1 @@ 1 :> 0) @@ 1 :> (0 :> 1 @@ 1 :> 0))

FlatMatrix == (0 :> (0 :> 0 @@ 1 :> 0) @@ 1 :> (0 :> 0 @@ 1 :> 0))

\* A case file of a view directory is kept as its identifier and the kind
\* of its content; CaseAt is the file as the Ventricle of the view reads it.
CaseKinds == {"sound", "flat", "empty"}

CaseAt(view, entry) ==
    IF entry.kind = "sound" THEN CurvatureFile(view, 2, 2, SoundMatrix)
    ELSE IF entry.kind = "flat" THEN CurvatureFile(view, 2, 2, FlatMatrix)
    ELSE EmptyFile(view)

(***************************************************************************)
(* class Cohort.  Every method maps a world w = [c: the object, fs: the    *)
(* files under output_path, h: the history, exc: the exception that ended  *)
(* the call, loaded and built: the tables _try_get_data loaded and built   *)
(* in the call, attempted: the views _build_data_set was entered for,      *)
(* overwrote: the tables _try_get_data built although their file was       *)
(* there, master_run: whether _build_master_table completed in the call,   *)
(* list_of_dfs: the tables it collected] to the world it leaves.  A        *)
(* build counts for the history when _try_get_data ran it to its end.  The *)
(* directories the tables are written to exist, and a path holds a regular *)
(* file or nothing.                                                        *)
(***************************************************************************)
ViewOrder == <<"4C", "3C", "2C">>

Paths == Views \cup {"master_table.csv"}

Bump(n) == IF n < MaxCount THEN n + 1 ELSE n

\* Cohort.__init__
NewCohortObject(view) ==
    [view |-> view,
     files |-> source[view],
     df_all_cases |-> None,
     df_master |-> None,
     curv |-> None,
     biomarkers |-> None]

_set_paths_and_files(w, view) ==
    [w EXCEPT !.c.view = view, !.c.files = source[view]]

\* ven = Ventricle(curv_file, view); ven.get_biomarkers(): the biomarker
\* row of a case file, or the exception that ends the call.
CaseResult(file) ==
    IF ConstructionError(file) # "none" THEN [exc |-> ConstructionError(file)]
    ELSE Biomarkers(NewVentricle(file).ventricle_curvature, file.view)

\* The loop of lines 166-169 from file i on: list_of_dfs collects the rows
\* with their identifiers, and the first exception leaves the loop.
RECURSIVE CaseLoop(_, _, _, _)
RECURSIVE CaseStep(_, _, _, _, _)
CaseStep(view, files, i, list_of_dfs, result) ==
    IF result.exc # "none" THEN [exc |-> result.exc, list_of_dfs |-> list_of_dfs]
    ELSE CaseLoop(view, files, i + 1,
                  Append(list_of_dfs, [id |-> files[i].id, row |-> result.row]))

CaseLoop(view, files, i, list_of_dfs) ==
    IF i > Len(files) THEN [exc |-> "none", list_of_dfs |-> list_of_dfs]
    ELSE CaseStep(view, files, i, list_of_dfs, CaseResult(CaseAt(view, files[i])))

\* The row of a case in the per-view table: the five biomarkers and the
\* six columns of lines 172-177, in the order of Features.
TableRow(b) ==
    << Num(b.min), Num(b.max), Num(b.min_delta), Num(b.max_delta), Num(b.amplitude_at_t),
       AbsVal(Div(b.min_delta, b.min)),
       Num(Abs(b.min_delta * b.min) * 1000),
       LogOf(Abs(b.min_delta * b.min) * 1000),
       Num(b.min_delta * b.amplitude_at_t * 1000),
       LogOf(b.min_delta * b.amplitude_at_t * 1000),
       Div(b.min_delta, b.max_delta) >>

\* pd.concat and lines 172-177: a row per case, in the order of the
\* listing, labelled with the identifier read from the file.
ConcatRows(list_of_dfs) ==
    [columns |-> Features,
     index |-> [i \in 1 .. Len(list_of_dfs) |-> StrLabel(list_of_dfs[i].id)],
     data |-> [i \in 1 .. Len(list_of_dfs) |-> TableRow(list_of_dfs[i].row)]]

\* Lines 179-180.
SaveDataSet(w, df, to_file) ==
    [w EXCEPT !.c.df_all_cases = df,
              !.fs[w.c.view] = IF to_file THEN to_csv(df) ELSE w.fs[w.c.view]]

\* The body of _build_data_set after the loop; pd.concat raises ValueError
\* on an empty list.
ConcatAndSave(w, loop, to_file) ==
    IF loop.exc # "none" THEN [w EXCEPT !.exc = loop.exc]
    ELSE IF loop.list_of_dfs = <<>> THEN [w EXCEPT !.exc = "ValueError"]
    ELSE SaveDataSet(w, ConcatRows(loop.list_of_dfs), to_file)

EnterBuild(w) == [w EXCEPT !.attempted = w.attempted \cup {w.c.view}]

_build_data_set_not_saved(w, to_file) ==
    ConcatAndSave(EnterBuild(w), CaseLoop(w.c.view, w.c.files, 1, <<>>), FALSE)

_build_data_set(w, to_file) ==
    ConcatAndSave(EnterBuild(w), CaseLoop(w.c.view, w.c.files, 1, <<>>), to_file)

\* A build that _try_get_data ran to its end, from the world before to the
\* world after it.
CountBuild(before, after, path) ==
    IF after.exc # "none" THEN after
    ELSE [after EXCEPT !.built = after.built \cup {path},
                       !.overwrote = IF before.fs[path] # None
                                     THEN after.overwrote \cup {path}
                                     ELSE after.overwrote,
                       !.h.builds[path] = Bump(after.h.builds[path])]

\* Lines 137-138.
LoadDataIfFile(w) ==
    IF w.fs[w.c.view] # None
    THEN [w EXCEPT !.c.df_all_cases = read_csv(w.fs[w.c.view]),
                   !.loaded = w.loaded \cup {w.c.view}]
    ELSE w

\* Lines 141-142.
BuildDataIfAbsent(w) ==
    IF w.fs[w.c.view] = None
    THEN CountBuild(w, _build_data_set(w, TRUE), w.c.view)
    ELSE w

\* Line 143.
SetBiomarkers(w) ==
    IF w.exc # "none" THEN w
    ELSE [w EXCEPT !.c.biomarkers = [columns |-> w.c.df_all_cases.columns]]

\* The data branch of _try_get_data (lines 134-143).
TryGetView(w) == SetBiomarkers(BuildDataIfAbsent(LoadDataIfFile(w)))

PrefixColumns_unprefixed(df, view) == df

PrefixColumns(df, view) ==
    [df EXCEPT !.columns = [i \in 1 .. Len(df.columns) |-> <<view>> \o df.columns[i]]]

\* Lines 189-190: the columns are renamed in place and the table is
\* appended to list_of_dfs.
AppendPrefixed(w) ==
    IF w.exc # "none" THEN w
    ELSE [w EXCEPT !.c.df_all_cases = PrefixColumns(w.c.df_all_cases, w.c.view),
                   !.list_of_dfs =
                       Append(w.list_of_dfs, PrefixColumns(w.c.df_all_cases, w.c.view))]

\* The loop of _build_master_table over the views from position k on.
RECURSIVE CollectViews(_, _)
CollectViews(w, k) ==
    IF k > Len(ViewOrder) \/ w.exc # "none" THEN w
    ELSE CollectViews(AppendPrefixed(TryGetView(_set_paths_and_files(w, ViewOrder[k]))),
                      k + 1)

RECURSIVE MergeAll(_, _, _)
MergeAll(df, list_of_dfs, i) ==
    IF i > Len(list_of_dfs) THEN df
    ELSE MergeAll(merge(df, list_of_dfs[i]), list_of_dfs, i + 1)

\* Lines 195-196; the history keeps the first master table of the object.
SaveMaster(w, df_master, to_file) ==
    [w EXCEPT
        !.c.df_master = df_master,
        !.fs["master_table.csv"] =
            IF to_file THEN to_csv(df_master) ELSE w.fs["master_table.csv"],
        !.master_run = TRUE,
        !.h.first_master =
            IF w.h.first_master = None THEN [csv |-> to_csv(df_master)]
            ELSE w.h.first_master]

\* Lines 192-196.
MergeCollected(w, to_file) ==
    IF w.exc # "none" THEN w
    ELSE SaveMaster(w, MergeAll(w.list_of_dfs[1], w.list_of_dfs, 2), to_file)

_build_master_table(w, to_file) ==
    MergeCollected(CollectViews([w EXCEPT !.list_of_dfs = <<>>], 1), to_file)

\* Lines 151-152.
LoadMasterIfFile(w) ==
    IF w.fs["master_table.csv"] # None
    THEN [w EXCEPT !.c.df_master = read_csv(w.fs["master_table.csv"]),
                   !.loaded = w.loaded \cup {"master_table.csv"}]
    ELSE w

\* Lines 154-155.
BuildMasterIfAbsent(w) ==
    IF w.fs["master_table.csv"] = None
    THEN CountBuild(w, _build_master_table(w, TRUE), "master_table.csv")
    ELSE w

\* The master-table branch of _try_get_data (lines 148-155).
TryGetMaster(w) == BuildMasterIfAbsent(LoadMasterIfFile(w))

DataBranch(w, data) == IF data THEN TryGetView(w) ELSE w

MasterBranch(w, master_table) ==
    IF master_table /\ w.exc = "none" THEN TryGetMaster(w) ELSE w

\* Lines 160-161.
ExitIfNeither(w, data, master_table) ==
    IF w.exc = "none" /\ ~(data \/ master_table) THEN [w EXCEPT !.exc = "SystemExit"]
    ELSE w

_try_get_data(w, data, master_table) ==
    ExitIfNeither(MasterBranch(DataBranch(w, data), master_table), data, master_table)

(***************************************************************************)
(* class PlottingCurvature (plotting.py).  The constructor takes over the  *)
(* arrays of the Ventricle by reference, not as copies: such a field is    *)
(* kept as the name of the Ventricle field it refers to and is read and    *)
(* written through it.  The drawing calls (matplotlib, seaborn) and the    *)
(* image files they write are not part of the state.                       *)
(***************************************************************************)
Ref(field) == [ref |-> field]

\* The two Ventricle methods called at lines 26 and 28 belong to a Ventricle
\* that ventricle.py does not hold: the mean over the frames of every point's
\* curvature (kept as the sum, the numerator over number_of_frames), and the
\* normalization (m + 0.125) * 4 of such a curve (the numerator over
\* 2 * number_of_frames).  Both read the Ventricle and change nothing.
get_mean_curvature_over_time(v) ==
    [p \in DOMAIN v.ventricle_curvature[0] |->
        DotFrom(Column(v.ventricle_curvature, p),
                [f \in 0 .. v.number_of_frames - 1 |-> 1], v.number_of_frames, 0)]

get_normalized_mean_curvature(v, curve) ==
    [p \in DOMAIN curve |-> 8 * curve[p] + v.number_of_frames]

\* data[frame, apex*2:apex*2+2]
ApexPoint(v, frame) == <<v.data[frame][2 * v.apex], v.data[frame][2 * v.apex + 1]>>

\* PlottingCurvature.__init__
PlottingCurvature(v) ==
    [constructed |-> TRUE,
     data |-> Ref("data"),
     number_of_frames |-> v.number_of_frames,
     curvature |-> Ref("ventricle_curvature"),
     c_normalized |-> Ref("vc_normalized"),
     es_frame |-> v.es_frame,
     ed_frame |-> v.ed_frame,
     mean_curvature |-> get_mean_curvature_over_time(v),
     mc_normalized |-> get_normalized_mean_curvature(v, get_mean_curvature_over_time(v)),
     es_apex |-> ApexPoint(v, v.es_frame),
     ed_apex |-> ApexPoint(v, v.ed_frame),
     ed_apex_id |-> v.apex]

\* savgol_filter(x, 7, polyorder=5, mode='interp') in exact arithmetic.  The
\* least-squares polynomial of degree 5 through 7 equally spaced samples
\* differs from the samples by a multiple of the one vector orthogonal to
\* all such polynomials, the signed binomial coefficients Residual: the fit
\* is x - Residual * (Residual . x) / (Residual . Residual).  A sample with
\* three neighbours on both sides is replaced by the fit of the window
\* around it, the first and the last three by the fit of the first and of
\* the last window.  Fewer than 7 samples raise ValueError.
SavgolWindow == 7

Residual == <<1, -6, 15, -20, 15, -6, 1>>

RECURSIVE ResidualDot(_, _, _)
ResidualDot(x, w, j) ==
    IF j > SavgolWindow THEN 0
    ELSE Residual[j] * x[w + j - 1] + ResidualDot(x, w, j + 1)

ResidualNorm == ResidualDot([i \in 0 .. SavgolWindow - 1 |-> Residual[i + 1]], 0, 1)

WindowOf(i, n) ==
    IF i < SavgolWindow \div 2 THEN 0
    ELSE IF i > n - 1 - SavgolWindow \div 2 THEN n - SavgolWindow
    ELSE i - SavgolWindow \div 2

savgol_filter(x, n) ==
    [i \in 0 .. n - 1 |->
        x[i] - (Residual[i - WindowOf(i, n) + 1] * ResidualDot(x, WindowOf(i, n), 1))
                   \div ResidualNorm]

\* Lines 253-255: every column of self.curvature is overwritten, in the
\* array itself, with its filtered values.
SmoothColumns(curv) ==
    [f \in DOMAIN curv |->
        [p \in DOMAIN curv[f] |-> savgol_filter(Column(curv, p), NumRows(curv))[f]]]

\* PlottingCurvature.plot_heatmap on the array self.curvature refers to.
plot_heatmap(curv, smooth) ==
    IF ~smooth THEN [exc |-> "none", curvature |-> curv]
    ELSE IF NumCols(curv) > 0 /\ NumRows(curv) < SavgolWindow
         THEN [exc |-> "ValueError", curvature |-> curv]
    ELSE [exc |-> "none", curvature |-> SmoothColumns(curv)]

(***************************************************************************)
(* Actions                                                                 *)
(***************************************************************************)
NoReturn == [op |-> "none"]

NoCohort == [constructed |-> FALSE]

NoHistory == [builds |-> [p \in Paths |-> 0], first_master |-> None]

EmptyFs == [p \in Paths |-> None]

NoPlot == [constructed |-> FALSE]

World ==
    [c |-> cohort, fs |-> fs, h |-> hist, exc |-> "none",
     loaded |-> {}, built |-> {}, attempted |-> {}, overwrote |-> {},
     master_run |-> FALSE, list_of_dfs |-> <<>>]

Commit(op, w) ==
    /\ cohort' = w.c
    /\ fs' = w.fs
    /\ hist' = w.h
    /\ ret' = [op |-> op, exc |-> w.exc, loaded |-> w.loaded, built |-> w.built,
               attempted |-> w.attempted, overwrote |-> w.overwrote,
               master_run |-> w.master_run,
               merged |-> [k \in 1 .. Len(w.list_of_dfs) |-> w.list_of_dfs[k].index]]

\* ven = Ventricle(case_name, view)
Construct ==
    /\ case_file # None
    /\ ~ven.constructed
    /\ ven' = IF ConstructionError(case_file) = "none" THEN NewVentricle(case_file)
              ELSE ven
    /\ ret' = [op |-> "__init__", exc |-> ConstructionError(case_file)]
    /\ UNCHANGED <<case_file, source, fs, cohort, hist, plot_tool>>

\* Ventricle(reordered_case, view): a second object, for the case file with
\* the point order of every frame rotated or reversed; areas is the local
\* of find_ed_and_es_frame.
ConstructReordered ==
    /\ ven.constructed
    /\ \E r \in 0 .. ven.number_of_points - 1, reversed \in BOOLEAN :
          LET other == NewVentricle(Reordered(case_file, r, reversed))
          IN ret' = [op |-> "reordered", exc |-> "none", r |-> r, reversed |-> reversed,
                     areas |-> Areas(other),
                     es_frame |-> other.es_frame, ed_frame |-> other.ed_frame]
    /\ UNCHANGED <<case_file, ven, source, fs, cohort, hist, plot_tool>>

\* Ventricle(case_name, view) once more: a second object for the same case
\* file, with the matrix its get_curvature_per_frame leaves.
ConstructAgain ==
    /\ ven.constructed
    /\ ret' = [op |-> "again", exc |-> "none",
               ventricle_curvature |-> NewVentricle(case_file).ventricle_curvature]
    /\ UNCHANGED <<case_file, ven, source, fs, cohort, hist, plot_tool>>

\* ven.get_biomarkers()
GetBiomarkers ==
    /\ ven.constructed
    /\ LET b == Biomarkers(ven.ventricle_curvature, ven.view)
       IN /\ ven' = IF b.exc = "none" THEN [ven EXCEPT !.biomarkers = b.row] ELSE ven
          /\ ret' = [op |-> "get_biomarkers", result |-> b]
    /\ UNCHANGED <<case_file, source, fs, cohort, hist, plot_tool>>

\* cohort = Cohort(source_path, view, output_path): a new object over the
\* same directories.
NewCohort ==
    /\ source # None
    /\ \E view \in Views :
          /\ cohort' = NewCohortObject(view)
          /\ hist' = [hist EXCEPT !.first_master = None]
          /\ ret' = [op |-> "Cohort", exc |-> "none", loaded |-> {}, built |-> {},
                     attempted |-> {}, overwrote |-> {}, master_run |-> FALSE,
                     merged |-> <<>>]
    /\ UNCHANGED <<case_file, ven, source, fs, plot_tool>>

\* cohort._try_get_data(data, master_table)
TryGetData ==
    /\ cohort # NoCohort
    /\ \E data \in BOOLEAN, master_table \in BOOLEAN :
          Commit("_try_get_data", _try_get_data(World, data, master_table))
    /\ UNCHANGED <<case_file, ven, source, plot_tool>>

\* cohort._build_data_set(to_file)
BuildDataSet ==
    /\ cohort # NoCohort
    /\ \E to_file \in BOOLEAN :
          Commit("_build_data_set", _build_data_set(World, to_file))
    /\ UNCHANGED <<case_file, ven, source, plot_tool>>

\* cohort._build_master_table(to_file)
BuildMasterTable ==
    /\ cohort # NoCohort
    /\ \E to_file \in BOOLEAN :
          Commit("_build_master_table", _build_master_table(World, to_file))
    /\ UNCHANGED <<case_file, ven, source, plot_tool>>

\* plot_tool = PlottingCurvature(source, output_path, ventricle=ven)
NewPlottingCurvature ==
    /\ ven.constructed
    /\ plot_tool' = PlottingCurvature(ven)
    /\ ret' = [op |-> "PlottingCurvature", exc |-> "none"]
    /\ UNCHANGED <<case_file, ven, source, fs, cohort, hist>>

\* plot_tool.plot_heatmap(smooth): self.curvature is ven.ventricle_curvature.
PlotHeatmap ==
    /\ plot_tool.constructed
    /\ \E smooth \in BOOLEAN :
          LET r == plot_heatmap(ven[plot_tool.curvature.ref], smooth)
          IN /\ ven' = [ven EXCEPT ![plot_tool.curvature.ref] = r.curvature]
             /\ ret' = [op |-> "plot_heatmap", smooth |-> smooth, exc |-> r.exc]
    /\ UNCHANGED <<case_file, source, fs, cohort, hist, plot_tool>>

\* The listing of a view directory with n case files.
Listings(n) == [1 .. n -> Ids]

SoundCases(l) == [i \in 1 .. Len(l) |-> [id |-> l[i], kind |-> "sound"]]

InitFrames ==
    /\ \E F \in 1 .. MaxFrames : \E d \in [0 .. F - 1 -> RectFrames] :
          case_file = ContourFile(F, d)
    /\ ven = NoVentricle
    /\ ret = NoReturn
    /\ source = None /\ fs = EmptyFs /\ cohort = NoCohort /\ hist = NoHistory
    /\ plot_tool = NoPlot

InitArea ==
    /\ \E shape \in Shapes : \E d \in [0 .. shape[2] - 1 -> PolygonFrames(shape[1])] :
          case_file = PolygonFile(shape[1], shape[2], d)
    /\ ven = NoVentricle
    /\ ret = NoReturn
    /\ source = None /\ fs = EmptyFs /\ cohort = NoCohort /\ hist = NoHistory
    /\ plot_tool = NoPlot

InitBiomarkers ==
    /\ \/ \E w \in Views, F \in 1 .. MaxRows, P \in 1 .. MaxCols :
             \E S \in SpikeSets(F, P) : \E val \in [S -> SpikeValues] :
                case_file = CurvatureFile(w, F, P, SpikeMatrix(F, P, S, val))
       \/ \E w \in Views : case_file = EmptyFile(w)
    /\ ven = NoVentricle
    /\ ret = NoReturn
    /\ source = None /\ fs = EmptyFs /\ cohort = NoCohort /\ hist = NoHistory
    /\ plot_tool = NoPlot

InitCohort ==
    /\ case_file = None
    /\ ven = NoVentricle
    /\ ret = NoReturn
    /\ \E n4 \in 0 .. MaxFiles : \E n3 \in 0 .. MaxFiles - n4 : \E n2 \in 0 .. MaxFiles - n4 - n3 :
          \E l4 \in Listings(n4), l3 \in Listings(n3), l2 \in Listings(n2) :
             source = [v \in Views |-> IF v = "4C" THEN SoundCases(l4)
                                        ELSE IF v = "3C" THEN SoundCases(l3)
                                        ELSE SoundCases(l2)]
    /\ fs = EmptyFs
    /\ cohort = NoCohort
    /\ hist = NoHistory
    /\ plot_tool = NoPlot

\* The same at most MaxCases case files, of any kind, in every view directory.
InitTable ==
    /\ case_file = None
    /\ ven = NoVentricle
    /\ ret = NoReturn
    /\ \E n \in 0 .. MaxCases : \E ids \in [1 .. n -> Ids], kinds \in [1 .. n -> CaseKinds] :
          source = [v \in Views |-> [i \in 1 .. n |-> [id |-> ids[i], kind |-> kinds[i]]]]
    /\ fs = EmptyFs
    /\ cohort = NoCohort
    /\ hist = NoHistory
    /\ plot_tool = NoPlot

\* Cases of SavgolWindow - 1 and of SavgolWindow frames, with curvature
\* values that are multiples of ResidualNorm.
HeatmapPoints == {1, 2}

ScaledMatrix(m, unit) == [f \in DOMAIN m |-> [p \in DOMAIN m[f] |-> unit * m[f][p]]]

InitHeatmap ==
    /\ \E w \in Views, F \in {SavgolWindow - 1, SavgolWindow}, P \in HeatmapPoints :
          \E S \in SpikeSets(F, P) : \E val \in [S -> SpikeValues] :
             case_file = CurvatureFile(w, F, P,
                             ScaledMatrix(SpikeMatrix(F, P, S, val), ResidualNorm))
    /\ ven = NoVentricle
    /\ ret = NoReturn
    /\ source = None /\ fs = EmptyFs /\ cohort = NoCohort /\ hist = NoHistory
    /\ plot_tool = NoPlot

\* One frame of P points without curvature, for every P up to MaxPoints.
InitWindow ==
    /\ \E w \in Views, P \in 1 .. MaxPoints :
          case_file = CurvatureFile(w, 1, P, ZeroMatrix(1, P))
    /\ ven = NoVentricle
    /\ ret = NoReturn
    /\ source = None /\ fs = EmptyFs /\ cohort = NoCohort /\ hist = NoHistory
    /\ plot_tool = NoPlot

NextVentricle == Construct \/ GetBiomarkers

NextArea == Construct \/ ConstructReordered

NextCohort == NewCohort \/ TryGetData \/ BuildMasterTable

SpecFrames == InitFrames /\ [][NextVentricle]_vars

SpecArea == InitArea /\ [][NextArea]_vars

SpecBiomarkers == InitBiomarkers /\ [][NextVentricle]_vars

SpecCohort == InitCohort /\ [][NextCohort]_vars

NextTable == NewCohort \/ TryGetData \/ BuildDataSet

SpecTable == InitTable /\ [][NextTable]_vars

NextCurvature == Construct \/ ConstructAgain \/ GetBiomarkers

SpecCurvature == InitBiomarkers /\ [][NextCurvature]_vars

SpecWindow == InitWindow /\ [][NextVentricle]_vars

NextHeatmap == Construct \/ GetBiomarkers \/ NewPlottingCurvature \/ PlotHeatmap

SpecHeatmap == InitHeatmap /\ [][NextHeatmap]_vars

(***************************************************************************)
(* Properties.  The quantities a claim speaks of are restated here from    *)
(* their definition, not through the operators of the model above.         *)
(***************************************************************************)
RECURSIVE SumOver(_, _)
SumOver(S, term) ==
    IF S = {} THEN 0
    ELSE LET i == CHOOSE j \in S : TRUE
         IN term[i] + SumOver(S \ {i}, term)

FrameIdx == 0 .. ven.number_of_frames - 1

PointIdx == 0 .. ven.number_of_points - 1

PointX(frame, i) == ven.data[frame][2 * i]

PointY(frame, i) == ven.data[frame][2 * i + 1]

Prev(i) == (i + ven.number_of_points - 1) % ven.number_of_points

\* Twice the shoelace area |sum x_i*y_(i-1) - sum y_i*x_(i-1)| of a frame.
Shoelace(frame) ==
    LET a == [i \in PointIdx |-> PointX(frame, i) * PointY(frame, Prev(i))]
        b == [i \in PointIdx |-> PointY(frame, i) * PointX(frame, Prev(i))]
    IN Abs(SumOver(PointIdx, a) - SumOver(PointIdx, b))

StrictlyDecreasing == \A f \in FrameIdx : f + 1 \in FrameIdx => Shoelace(f) > Shoelace(f + 1)

\* C1: es_frame is a frame of minimal shoelace area and ed_frame one of
\* maximal area; when the areas strictly decrease from frame to frame,
\* ed_frame is 0 and es_frame is the last frame.
C1_KeyFramesExtremal ==
    ven.constructed =>
        /\ ven.es_frame \in FrameIdx
        /\ ven.ed_frame \in FrameIdx
        /\ \A f \in FrameIdx : Shoelace(ven.es_frame) <= Shoelace(f)
        /\ \A f \in FrameIdx : Shoelace(ven.ed_frame) >= Shoelace(f)
        /\ StrictlyDecreasing =>
              ven.ed_frame = 0 /\ ven.es_frame = ven.number_of_frames - 1

C1_Witness ==
    /\ ven.constructed
    /\ ven.number_of_frames = 3
    /\ StrictlyDecreasing
    /\ ven.ed_frame = 0
    /\ ven.es_frame = 2

\* C9: among the frames that share the minimum area es_frame is the lowest
\* index, and among those that share the maximum area ed_frame is.
C9_KeyFrameTiesLowestIndex ==
    ven.constructed =>
        /\ \A f \in FrameIdx : Shoelace(f) = Shoelace(ven.es_frame) => ven.es_frame <= f
        /\ \A f \in FrameIdx : Shoelace(f) = Shoelace(ven.ed_frame) => ven.ed_frame <= f

C9_Witness ==
    /\ ven.constructed
    /\ ven.es_frame # ven.ed_frame
    /\ \E f \in FrameIdx : f > ven.es_frame /\ Shoelace(f) = Shoelace(ven.es_frame)

\* The first point of a frame with the minimum y-coordinate.
LowestPoint(frame) ==
    CHOOSE i \in PointIdx :
        /\ \A j \in PointIdx : PointY(frame, i) <= PointY(frame, j)
        /\ \A j \in PointIdx : j < i => PointY(frame, j) > PointY(frame, i)

Occurrences(k) == Cardinality({f \in FrameIdx : LowestPoint(f) = k})

\* C2: apex is a point index that occurs most often among the per-frame
\* lowest points (the first such point of each frame): the mode across the
\* frames, not the lowest point of one chosen frame.
C2_ApexIsMode ==
    ven.constructed =>
        /\ \A f \in FrameIdx : ven.apices[f] = LowestPoint(f)
        /\ ven.apex \in PointIdx
        /\ Occurrences(ven.apex) >= 1
        /\ \A k \in PointIdx : Occurrences(ven.apex) >= Occurrences(k)

C2_Witness ==
    /\ ven.constructed
    /\ ven.number_of_frames = 3
    /\ Occurrences(ven.apex) = 2
    /\ LowestPoint(0) # ven.apex
    /\ LowestPoint(ven.ed_frame) # ven.apex
    /\ \E j \in PointIdx : j > LowestPoint(0) /\ PointY(0, j) = PointY(0, LowestPoint(0))

\* C10: when several point indices are tied for the highest count, apex
\* is the smallest of them, whatever the order of the frames.
C10_ModeTieSmallestIndex ==
    ven.constructed =>
        \A k \in PointIdx : Occurrences(k) = Occurrences(ven.apex) => ven.apex <= k

C10_Witness ==
    /\ ven.constructed
    /\ \E k \in PointIdx : k # ven.apex /\ Occurrences(k) = Occurrences(ven.apex)
    /\ LowestPoint(0) > ven.apex

AllAreasEqual == \A f, g \in FrameIdx : Shoelace(f) = Shoelace(g)

\* C11: when the areas of all frames are equal (a single frame included),
\* the construction ends with DegenerateContourError instead of returning
\* ED and ES indices.
C11_DegenerateContourFails ==
    (ret.op = "__init__" /\ ven.constructed /\ AllAreasEqual) =>
        ret.exc = "DegenerateContourError"

\* C12: a constructed case with at least two frames whose areas are not
\* all equal has ed_frame # es_frame.
C12_KeyFramesDiffer ==
    (ven.constructed /\ ven.number_of_frames >= 2 /\ ~AllAreasEqual) =>
        ven.ed_frame # ven.es_frame

C12_Witness ==
    /\ ven.constructed
    /\ ven.number_of_frames = 3
    /\ ~AllAreasEqual
    /\ Shoelace(0) = Shoelace(1)
    /\ ven.ed_frame # ven.es_frame

\* C13: a constructed case has 0 <= apex < number_of_points.
C13_ApexInRange ==
    ven.constructed => 0 <= ven.apex /\ ven.apex < ven.number_of_points

C13_Witness ==
    /\ ven.constructed
    /\ ven.apex = 2
    /\ ven.number_of_points = 4

\* C14: the area of every frame is the same when the cyclic point sequence
\* is started at another point and when it is reversed, and so are es_frame
\* and ed_frame of the case.
C14_AreaOrderInvariant ==
    ret.op = "reordered" =>
        /\ \A f \in FrameIdx : ret.areas[f] = Shoelace(f)
        /\ ret.es_frame = ven.es_frame
        /\ ret.ed_frame = ven.ed_frame

C14_Witness ==
    /\ ret.op = "reordered"
    /\ ret.reversed
    /\ ret.r > 0
    /\ ven.number_of_frames = 2
    /\ ven.es_frame # ven.ed_frame
    /\ ret.es_frame = 1

(***************************************************************************)
(* Properties of get_biomarkers.                                           *)
(***************************************************************************)
Returned == ret.op = "get_biomarkers" /\ ret.result.exc = "none"

Curv == ven.ventricle_curvature

RowIdx == DOMAIN Curv

ColIdx == DOMAIN Curv[0]

Entries(cols) == {Curv[r][c] : r \in RowIdx, c \in cols}

Least(S) == CHOOSE v \in S : \A w \in S : v <= w

Greatest(S) == CHOOSE v \in S : \A w \in S : v >= w

\* The integer nearest to pct * P / 100 (never a tie for the four
\* fractions of the code: see RoundNeverTies).
Nearest(pct, P) == CHOOSE k \in 0 .. P : 2 * Abs(100 * k - pct * P) <= 100

\* The columns the claim names for a view.
ClaimedRange(view) ==
    LET P == Cardinality(ColIdx)
    IN IF view = "2C" THEN ColIdx
       ELSE IF view = "4C" THEN {c \in ColIdx : Nearest(4, P) <= c /\ c <= Nearest(40, P)}
       ELSE {c \in ColIdx : Nearest(60, P) <= c /\ c <= Nearest(96, P)}

\* C4: 'min' and 'max' are the minimum and the maximum over all entries of
\* the whole curvature matrix, for every view.
C4_GlobalExtrema ==
    Returned =>
        /\ ven.biomarkers.min = Least(Entries(ColIdx))
        /\ ven.biomarkers.max = Greatest(Entries(ColIdx))

C4_Witness ==
    /\ Returned
    /\ ven.view = "3C"
    /\ ven.biomarkers.min < Least(Entries(ClaimedRange(ven.view)))
    /\ ven.biomarkers.max > Greatest(Entries(ClaimedRange(ven.view)))

\* C5: curv_min_col lies in the column range of the view (the window for
\* '4C' and for the other windowed view, all columns for '2C') and holds
\* the smallest value found in that range.
C5_MinColumnInWindow ==
    Returned =>
        /\ ret.result.curv_min_col \in ClaimedRange(ven.view)
        /\ Least(Entries({ret.result.curv_min_col})) = Least(Entries(ClaimedRange(ven.view)))

C5_Witness ==
    /\ Returned
    /\ ven.view = "4C"
    /\ Cardinality(ColIdx) = 5
    /\ ClaimedRange(ven.view) = {0, 1, 2}
    /\ ret.result.curv_min_col = 1
    /\ Least(Entries({3, 4})) < Least(Entries({0, 1, 2}))

\* C6: min_delta = |max of column curv_min_col - min| and
\* max_delta = |min of column curv_max_col - max|, with curv_max_col the
\* first column whose maximum is the largest.
C6_Deltas ==
    Returned =>
        LET min == Least(Entries(ColIdx))
            max == Greatest(Entries(ColIdx))
            cmax == ret.result.curv_max_col
        IN /\ cmax \in ColIdx
           /\ Greatest(Entries({cmax})) = max
           /\ \A c \in ColIdx : c < cmax => Greatest(Entries({c})) < max
           /\ ven.biomarkers.min_delta =
                 Abs(Greatest(Entries({ret.result.curv_min_col})) - min)
           /\ ven.biomarkers.max_delta = Abs(Least(Entries({cmax})) - max)

C6_Witness ==
    /\ Returned
    /\ ret.result.curv_max_col > 0
    /\ ret.result.curv_min_col # ret.result.curv_max_col
    /\ ven.biomarkers.min_delta > 0
    /\ ven.biomarkers.max_delta > 0

\* C15: for a windowed view whose column range [lower_bound, upper_bound]
\* selects no column of the curvature matrix, get_biomarkers fails with
\* EmptyWindowError.
C15_EmptyWindowFails ==
    (ret.op = "get_biomarkers" /\ ven.view # "2C" /\ ClaimedRange(ven.view) = {}) =>
        ret.result.exc = "EmptyWindowError"

\* C16: for a case without frames (a curvature matrix of zero rows) the
\* extraction fails with NoDataError and no biomarker row comes to exist.
C16_NoDataFails ==
    (ret.op = "__init__" /\ case_file.frames = 0) =>
        (ret.exc = "NoDataError" /\ ~ven.constructed)

\* A call in which _build_master_table ran to its end.
MasterBuilt == ret.op # "none" /\ ret.exc = "none" /\ ret.master_run

MasterIndex == cohort.df_master.index

MergedLabels(k) == {ret.merged[k][i] : i \in 1 .. Len(ret.merged[k])}

\* The identifiers present in every per-view table that was merged.
CommonLabels ==
    {l \in MergedLabels(1) : \A k \in 1 .. Len(ret.merged) : l \in MergedLabels(k)}

\* C3: the master table holds exactly the case identifiers present in every
\* one of the merged per-view tables, one row per identifier, in ascending
\* order of identifier.
C3_MasterIsIntersection ==
    MasterBuilt =>
        /\ {MasterIndex[i] : i \in 1 .. Len(MasterIndex)} = CommonLabels
        /\ \A i, j \in 1 .. Len(MasterIndex) : i # j => MasterIndex[i] # MasterIndex[j]
        /\ \A i, j \in 1 .. Len(MasterIndex) :
              i < j => ~LabelLess(MasterIndex[j], MasterIndex[i])

\* C7: _try_get_data builds an artifact only when its file is absent, the
\* file exists after the build, what it loaded exists, and over any sequence
\* of calls each artifact is built at most once.
C7_BuildOnlyWhenAbsent ==
    /\ \A p \in Paths :
          /\ hist.builds[p] <= 1
          /\ hist.builds[p] >= 1 => fs[p] # None
    /\ ret.op = "_try_get_data" =>
          /\ ret.overwrote = {}
          /\ \A p \in ret.built \cup ret.loaded : fs[p] # None

C7_Witness ==
    /\ ret.op = "_try_get_data"
    /\ ret.exc = "none"
    /\ ret.loaded = {"master_table.csv"}
    /\ ret.built = {}
    /\ \A p \in Paths : hist.builds[p] = 1

\* C8: every run of the master-table build on one Cohort, with the case
\* files unchanged, gives the table the first run gave (identifiers,
\* columns and values), and no column name carries a second view prefix.
C8_MasterBuildIdempotent ==
    MasterBuilt =>
        /\ to_csv(cohort.df_master) = hist.first_master.csv
        /\ \A i \in 1 .. Len(cohort.df_master.columns) :
              LET name == cohort.df_master.columns[i]
              IN Len(name) = 2 /\ name[1] \in Views /\ <<name[2]>> \in Range(Features)

(***************************************************************************)
(* Properties of _build_data_set.                                          *)
(***************************************************************************)
Distinct(seq) == \A i, j \in 1 .. Len(seq) : i # j => seq[i] # seq[j]

CaseIds(v) == [i \in 1 .. Len(source[v]) |-> source[v][i].id]

PersistedIds(v) == [i \in 1 .. Len(fs[v].lines) |-> fs[v].lines[i].id]

\* C17: _build_data_set fails with DuplicateCaseIdError when two case files
\* of the view yield the same identifier, so that no per-view table and no
\* master table has two rows with the same identifier.
C17_DuplicateIdsRejected ==
    ret.op # "none" =>
        /\ \A v \in ret.attempted :
              ~Distinct(CaseIds(v)) => ret.exc = "DuplicateCaseIdError"
        /\ \A v \in Views : fs[v] # None => Distinct(PersistedIds(v))
        /\ cohort.df_all_cases # None => Distinct(cohort.df_all_cases.index)
        /\ cohort.df_master # None => Distinct(cohort.df_master.index)

ColumnOf(name) == CHOOSE k \in 1 .. Len(Features) : Features[k] = <<name>>

Finite(value) == value.kind \notin {"nan", "inf", "-inf"}

\* Every case file of the view gives a biomarker row.
Case(v, i) == CaseAt(v, source[v][i])

AllSucceed(v) == \A i \in 1 .. Len(source[v]) : CaseResult(Case(v, i)).exc = "none"

MinIndexOf(file) ==
    Abs(CaseResult(file).row.min_delta * CaseResult(file).row.min) * 1000

\* The cells of a column in the persisted table of a view and in the table
\* the Cohort holds.
PersistedCells(v, name) ==
    IF fs[v] = None THEN {}
    ELSE {fs[v].lines[i].cells[ColumnOf(name)] : i \in 1 .. Len(fs[v].lines)}

HeldCells(name) ==
    IF cohort.df_all_cases = None THEN {}
    ELSE {cohort.df_all_cases.data[i][ColumnOf(name)] :
             i \in 1 .. Len(cohort.df_all_cases.data)}

\* C18: the build fails with DomainError when the min_index of a case is
\* <= 0, and no per-view table, held or persisted, has a NaN or infinite
\* log_min_index.
C18_LogDomainError ==
    ret.op # "none" =>
        /\ \A v \in ret.attempted :
              (AllSucceed(v) /\ \E i \in 1 .. Len(source[v]) : MinIndexOf(Case(v, i)) <= 0)
                  => ret.exc = "DomainError"
        /\ \A v \in Views : \A cell \in PersistedCells(v, "log_min_index") : Finite(cell)
        /\ \A cell \in HeldCells("log_min_index") : Finite(cell)

IsFlat(file) ==
    /\ file.frames > 0
    /\ \A r \in DOMAIN file.curv : \A c \in DOMAIN file.curv[r] : file.curv[r][c] = 0

\* C19: a case whose curvature is zero everywhere has min = max = 0 and
\* min_delta = max_delta = 0, and the table build raises DomainError for
\* its delta_ratio instead of persisting NaN.
C19_FlatCaseDomainError ==
    ret.op # "none" =>
        /\ \A v \in ret.attempted :
              (AllSucceed(v) /\ \E i \in 1 .. Len(source[v]) : IsFlat(Case(v, i))) =>
                  /\ \A i \in 1 .. Len(source[v]) :
                        IsFlat(Case(v, i)) =>
                            LET b == CaseResult(Case(v, i)).row
                            IN b.min = 0 /\ b.max = 0 /\ b.min_delta = 0 /\ b.max_delta = 0
                  /\ ret.exc = "DomainError"
        /\ \A v \in Views : \A cell \in PersistedCells(v, "delta_ratio") : cell # NaN

\* The identifiers of the case files of a view that give a biomarker row.
SucceedingIds(v) ==
    LET ok == SelectSeq([i \in 1 .. Len(source[v]) |-> i],
                        LAMBDA i : CaseResult(Case(v, i)).exc = "none")
    IN [k \in 1 .. Len(ok) |-> source[v][ok[k]].id]

\* C20: a build of the table of a view that has a case file that does not
\* fail ends normally, with a row for every such file, wherever the failing
\* files stand in the listing (seen on the table the build leaves in the
\* Cohort, before any reload from its file).
C20_FailuresSkipped ==
    (/\ ret.op # "none"
     /\ cohort.view \in ret.attempted
     /\ cohort.view \notin ret.loaded
     /\ SucceedingIds(cohort.view) # <<>>) =>
        /\ ret.exc = "none"
        /\ cohort.df_all_cases # None
        /\ [i \in 1 .. Len(cohort.df_all_cases.index) |->
               LabelText(cohort.df_all_cases.index[i])] = SucceedingIds(cohort.view)

HeldIsEmitted == cohort.df_all_cases # None /\ fs[cohort.view] # None

\* C22: a per-view table that is persisted and held as df_all_cases is never
\* changed in place: after every call, the master-table build included, the
\* held table has the column names and the values of the persisted one.
C22_EmittedTableUnchanged ==
    (ret.op # "none" /\ ret.exc = "none" /\ HeldIsEmitted) =>
        /\ cohort.df_all_cases.columns = fs[cohort.view].header
        /\ cohort.df_all_cases.data =
              [i \in 1 .. Len(fs[cohort.view].lines) |-> fs[cohort.view].lines[i].cells]

\* The columns of the master table named view_feature.
MasterColumns(v, f) ==
    {i \in 1 .. Len(cohort.df_master.columns) : cohort.df_master.columns[i] = <<v>> \o f}

\* C23: every column of the master table is named <view>_<feature> for one
\* of the merged views, every view contributes each of its features exactly
\* once, and the number of columns is the sum of the column counts of the
\* per-view tables.
C23_MasterColumns ==
    (ret.op # "none" /\ cohort.df_master # None) =>
        /\ \A i \in 1 .. Len(cohort.df_master.columns) :
              \E v \in Views, f \in Range(Features) : cohort.df_master.columns[i] = <<v>> \o f
        /\ \A v \in Views : \A k \in 1 .. Len(fs[v].header) :
              Cardinality(MasterColumns(v, fs[v].header[k])) = 1
        /\ Len(cohort.df_master.columns) =
              Len(fs["4C"].header) + Len(fs["3C"].header) + Len(fs["2C"].header)

C23_Witness ==
    /\ MasterBuilt
    /\ Len(cohort.df_master.index) = 2
    /\ Len(cohort.df_master.columns) = 3 * Len(Features)
    /\ ret.loaded # {}
    /\ ret.built = {"master_table.csv"}

C25_MinCellIsRegionMin ==
    Returned =>
        Curv[ret.result.curv_min_row][ret.result.curv_min_col] =
            Least(Entries(ClaimedRange(ven.view)))

\* C26: for every view amplitude_at_t is |max of row curv_min_row - min|
\* and it is the spread within the frame of the global minimum: row
\* curv_min_row holds an entry equal to 'min'.
C26_AmplitudeRowHoldsMin ==
    Returned =>
        /\ ven.biomarkers.amplitude_at_t =
              Abs(Greatest({Curv[ret.result.curv_min_row][c] : c \in ColIdx})
                  - Least(Entries(ColIdx)))
        /\ \E c \in ColIdx : Curv[ret.result.curv_min_row][c] = Least(Entries(ColIdx))

\* C27: vc_normalized has the shape of the curvature matrix, its entry at
\* (frame, point) is (curvature[frame][point] + 0.125) * 4 (eight times the
\* entry is 32 * curvature + 4; vc_normalized keeps twice the entry), and
\* the curvature matrix is still what the engine gave.
C27_NormalizedCurvature ==
    ven.constructed =>
        /\ DOMAIN ven.vc_normalized = DOMAIN ven.ventricle_curvature
        /\ \A f \in DOMAIN ven.ventricle_curvature :
              /\ DOMAIN ven.vc_normalized[f] = DOMAIN ven.ventricle_curvature[f]
              /\ \A p \in DOMAIN ven.ventricle_curvature[f] :
                    4 * ven.vc_normalized[f][p] = 32 * ven.ventricle_curvature[f][p] + 4
        /\ \A f \in DOMAIN ven.ventricle_curvature : ven.ventricle_curvature[f] = case_file.curv[f]

C27_Witness ==
    /\ ven.constructed
    /\ ven.number_of_frames = 2
    /\ \E p, q \in DOMAIN ven.ventricle_curvature[0] :
          /\ ven.ventricle_curvature[0][p] = -1 /\ ven.vc_normalized[0][p] = -7
          /\ ven.ventricle_curvature[1][q] = 1 /\ ven.vc_normalized[1][q] = 9

\* C28: after every call of _try_get_data with master_table=True that
\* returns normally, whether it loaded the master table from its file or
\* built it, df_master and biomarkers are both set.
C28_MasterCallSetsBiomarkers ==
    (/\ ret.op = "_try_get_data"
     /\ ret.exc = "none"
     /\ "master_table.csv" \in ret.loaded \cup ret.built) =>
        /\ cohort.df_master # None
        /\ cohort.biomarkers # None

(***************************************************************************)
(* Properties of the column window.                                        *)
(***************************************************************************)
\* get_biomarkers has computed the bounds of the window of a windowed view.
WindowComputed == ret.op = "get_biomarkers" /\ ven.view # "2C"

PointCount == Cardinality(ColIdx)

\* C29: for every point count P >= 1 and every windowed view the bounds
\* computed in get_biomarkers satisfy 0 <= lower_bound <= upper_bound <= P - 1.
C29_WindowBoundsInRange ==
    WindowComputed =>
        /\ 0 <= lower_bound(ven.view, PointCount)
        /\ lower_bound(ven.view, PointCount) <= upper_bound(ven.view, PointCount)
        /\ upper_bound(ven.view, PointCount) <= PointCount - 1

\* C29 as amended: 0 <= lower_bound <= upper_bound <= P; upper_bound <= P - 1
\* for '4C' and, for the other windowed view, from P = 13 on; lower_bound
\* <= P - 1 from P = 2 on.
C29_WindowBoundsUpToP ==
    WindowComputed =>
        /\ 0 <= lower_bound(ven.view, PointCount)
        /\ lower_bound(ven.view, PointCount) <= upper_bound(ven.view, PointCount)
        /\ upper_bound(ven.view, PointCount) <= PointCount
        /\ (ven.view = "4C" \/ PointCount >= 13) =>
              upper_bound(ven.view, PointCount) <= PointCount - 1
        /\ PointCount >= 2 => lower_bound(ven.view, PointCount) <= PointCount - 1

C29_Witness ==
    /\ WindowComputed
    /\ ven.view = "3C"
    /\ PointCount = 12
    /\ upper_bound(ven.view, PointCount) = PointCount
    /\ ret.result.exc = "none"

(***************************************************************************)
(* Properties of the derived scalars.                                      *)
(***************************************************************************)
\* The spread of the whole curvature matrix.
Span == Greatest(Entries(ColIdx)) - Least(Entries(ColIdx))

\* C30: for every view, min_delta, max_delta and amplitude_at_t of a
\* non-empty curvature matrix lie between 0 and max - min.
C30_DeltasWithinSpan ==
    Returned =>
        /\ 0 <= ven.biomarkers.min_delta /\ ven.biomarkers.min_delta <= Span
        /\ 0 <= ven.biomarkers.max_delta /\ ven.biomarkers.max_delta <= Span
        /\ 0 <= ven.biomarkers.amplitude_at_t /\ ven.biomarkers.amplitude_at_t <= Span

C30_Witness ==
    /\ Returned
    /\ Span = 2
    /\ ven.biomarkers.min_delta = 2
    /\ ven.biomarkers.max_delta = 2
    /\ ven.biomarkers.amplitude_at_t = 1

====
